---------------------------- MODULE Spec2Model ----------------------------
(***************************************************************************)
(* A model of src/svd.py: the rating-matrix pipeline (pivot, alignment of  *)
(* the two splits, truncated SVD, reconstruction and min-max rescaling,    *)
(* evaluation, top-N recommendation).                                      *)
(*                                                                         *)
(* Numbers.  Ratings, predictions and metrics are floating-point values in *)
(* the source.  They are modelled as exact extended rationals [n, d]:      *)
(* d > 0 is the finite value n/d in lowest terms, <<0,0>> is NaN and       *)
(* <<1,0>>, <<-1,0>> are +inf and -inf, with IEEE rules for the non-finite *)
(* cases (0/0 = NaN, x/0 = +-inf, NaN compares false with everything).     *)
(* Rounding error is not modelled.                                         *)
(*                                                                         *)
(* Library code.  pandas, numpy and scikit-learn are not part of the       *)
(* repository; each call is modelled by its documented behaviour, noted at *)
(* the definition.  The numeric output of TruncatedSVD is not computed:    *)
(* the factors are drawn from a bounded family of matrices of the shape    *)
(* the library returns (see TrainSvd).                                     *)
(***************************************************************************)
EXTENDS Integers, Sequences, FiniteSets, TLC

VARIABLES
    pc,               \* position of the running function
    err,              \* the exception that ended the run, or "none"
    ratings,          \* main: the loaded record table (rows in file order)
    train_random, test_random, train_temporal, test_temporal, \* main: the splits
    split_type,       \* main: the loop variable of line 111
    train_df, test_df,          \* the record tables of the current split
    train_matrix, test_matrix,  \* the aligned pair
    U, Sigma, VT,     \* the factors returned by train_svd
    reconstructed,    \* reconstruct_matrix: the raw product of line 60
    min_rating, max_rating,     \* normalize_predictions: line 47
    pred_matrix,      \* the rescaled predicted matrix
    metrics,          \* what evaluate_predictions returned
    user_id, user_mapper, movie_mapper, top_n,  \* arguments of recommend_movies
    recommendations   \* what recommend_movies returned

vars == << pc, err, ratings, train_random, test_random, train_temporal,
           test_temporal, split_type, train_df, test_df, train_matrix,
           test_matrix, U, Sigma, VT, reconstructed, min_rating, max_rating,
           pred_matrix, metrics, user_id, user_mapper, movie_mapper, top_n,
           recommendations >>

---------------------------------------------------------------------------
(* Program constants *)

N_COMPONENTS == 10

\* top_n=5, the default of recommend_movies
DEFAULT_TOP_N == 5

\* user_id = 2 in main
MAIN_USER_ID == 2

---------------------------------------------------------------------------
(* Extended rational arithmetic (the float operations the source uses) *)

Abs(x) == IF x < 0 THEN -x ELSE x

Sign(x) == IF x < 0 THEN -1 ELSE IF x > 0 THEN 1 ELSE 0

RECURSIVE Gcd(_, _)
Gcd(a, b) == IF b = 0 THEN a ELSE Gcd(b, a % b)

NaN == [n |-> 0, d |-> 0]

Inf(s) == [n |-> s, d |-> 0]

\* the value n/d of a float division, d any integer
Rat(n, d) ==
    IF d = 0 THEN [n |-> Sign(n), d |-> 0]
    ELSE LET g == Gcd(Abs(n), Abs(d))
             s == IF d < 0 THEN -1 ELSE 1
         IN  [n |-> s * (n \div g), d |-> Abs(d) \div g]

Int2R(k) == [n |-> k, d |-> 1]

Zero == Int2R(0)

IsNaN(x) == x.d = 0 /\ x.n = 0

IsInf(x) == x.d = 0 /\ x.n # 0

IsFinite(x) == x.d > 0

RNeg(x) == [n |-> -x.n, d |-> x.d]

RAdd(x, y) ==
    IF IsNaN(x) \/ IsNaN(y) THEN NaN
    ELSE IF IsInf(x) /\ IsInf(y) THEN (IF x.n = y.n THEN x ELSE NaN)
    ELSE IF IsInf(x) THEN x
    ELSE IF IsInf(y) THEN y
    ELSE LET g == Gcd(x.d, y.d)
         IN  Rat(x.n * (y.d \div g) + y.n * (x.d \div g), (x.d \div g) * y.d)

RSub(x, y) == RAdd(x, RNeg(y))

RMul(x, y) ==
    IF IsNaN(x) \/ IsNaN(y) THEN NaN
    ELSE IF IsInf(x) \/ IsInf(y)
         THEN (IF x.n = 0 \/ y.n = 0 THEN NaN ELSE Inf(Sign(x.n) * Sign(y.n)))
    ELSE LET a == Rat(x.n, y.d)
             b == Rat(y.n, x.d)
         IN  Rat(a.n * b.n, a.d * b.d)

RDiv(x, y) ==
    IF IsNaN(x) \/ IsNaN(y) THEN NaN
    ELSE IF IsInf(y) THEN (IF IsInf(x) THEN NaN ELSE Zero)
    ELSE IF IsInf(x) THEN Inf(x.n * (IF y.n < 0 THEN -1 ELSE 1))
    ELSE IF y.n = 0 THEN (IF x.n = 0 THEN NaN ELSE Inf(Sign(x.n)))
    ELSE LET a == Rat(x.n, y.n)
             b == Rat(y.d, x.d)
         IN  Rat(a.n * b.n, a.d * b.d)

\* x == y of two floats: false when either is NaN
REq(x, y) == ~IsNaN(x) /\ ~IsNaN(y) /\ x = y

\* x < y of two floats: false when either is NaN
RLt(x, y) ==
    /\ ~IsNaN(x) /\ ~IsNaN(y)
    /\ x # y
    /\ IF IsInf(x) THEN x.n < 0
       ELSE IF IsInf(y) THEN y.n > 0
       ELSE x.n * y.d < y.n * x.d

RLe(x, y) == REq(x, y) \/ RLt(x, y)

RGe(x, y) == RLe(y, x)

---------------------------------------------------------------------------
(* Sequences *)

Range(s) == { s[i] : i \in DOMAIN s }

RECURSIVE SortedSeq(_)
\* the elements of a finite set of integers, ascending
SortedSeq(S) ==
    IF S = {} THEN << >>
    ELSE LET m == CHOOSE x \in S : \A y \in S : x <= y
         IN  << m >> \o SortedSeq(S \ {m})

RECURSIVE SelectIdx(_, _, _)
\* the positions i >= from of s with keep[i], ascending (np.where, boolean mask)
SelectIdx(keep, from, to) ==
    IF from > to THEN << >>
    ELSE (IF keep[from] THEN << from >> ELSE << >>) \o SelectIdx(keep, from + 1, to)

RECURSIVE RSum(_, _)
\* the sum of f[i] over the positions i of the sequence idx
RSum(f, idx) ==
    IF idx = << >> THEN Zero ELSE RAdd(f[Head(idx)], RSum(f, Tail(idx)))

\* the position of label x in the sequence s (Index.get_loc)
PosOf(s, x) == CHOOSE i \in DOMAIN s : s[i] = x

---------------------------------------------------------------------------
(* numpy arrays: a shape <<rows, cols>> and the cells in row-major order *)

\* the r x c array whose cell (i, j) is f[<<i, j>>]
NdArray(r, c, f) ==
    [shape |-> << r, c >>,
     data  |-> [p \in 1..(r * c) |-> f[<< ((p - 1) \div c) + 1, ((p - 1) % c) + 1 >>]]]

Cell(a, i, j) == a.data[(i - 1) * a.shape[2] + j]

\* a.flatten()
Flatten(a) == a.data

NoArray == [shape |-> << 0, 0 >>, data |-> << >>]

\* a.min(): NaN when any cell is NaN
ArrMin(a) ==
    IF \E p \in DOMAIN a.data : IsNaN(a.data[p]) THEN NaN
    ELSE a.data[CHOOSE p \in DOMAIN a.data : \A q \in DOMAIN a.data : RLe(a.data[p], a.data[q])]

\* a.max(): NaN when any cell is NaN
ArrMax(a) ==
    IF \E p \in DOMAIN a.data : IsNaN(a.data[p]) THEN NaN
    ELSE a.data[CHOOSE p \in DOMAIN a.data : \A q \in DOMAIN a.data : RLe(a.data[q], a.data[p])]

---------------------------------------------------------------------------
(* Record tables and rating matrices *)

Record(u, m, r, t) == [userId |-> u, movieId |-> m, rating |-> r, timestamp |-> t]

\* a DataFrame pivot: the row labels, the column labels and the cells
NoFrame == [index |-> << >>, columns |-> << >>, values |-> NoArray]

\* df.pivot_table(index='userId', columns='movieId', values='rating',
\* fill_value=0): labels sorted ascending, a cell is the mean rating of the
\* rows of that user and movie (pivot_table's default aggfunc), 0 when none.
create_user_movie_matrix(df) ==
    LET index   == SortedSeq({ df[i].userId : i \in DOMAIN df })
        columns == SortedSeq({ df[i].movieId : i \in DOMAIN df })
        rows(u, m) == SelectIdx([i \in DOMAIN df |->
                                    df[i].userId = u /\ df[i].movieId = m], 1, Len(df))
        rate    == [i \in DOMAIN df |-> df[i].rating]
        cell    == [ij \in (DOMAIN index) \X (DOMAIN columns) |->
                      LET hit == rows(index[ij[1]], columns[ij[2]])
                      IN  IF hit = << >> THEN Zero
                          ELSE RDiv(RSum(rate, hit), Int2R(Len(hit)))]
    IN  [index |-> index, columns |-> columns,
         values |-> NdArray(Len(index), Len(columns), cell)]

\* Index.intersection: the labels of a that are in b, in a's order
Intersection(a, b) ==
    LET keep == [i \in DOMAIN a |-> a[i] \in Range(b)]
        idx  == SelectIdx(keep, 1, Len(a))
    IN  [k \in DOMAIN idx |-> a[idx[k]]]

\* frame.loc[rows, cols]: the sub-frame of the given labels, in the given order
Loc(frame, rows, cols) ==
    LET cell == [ij \in (DOMAIN rows) \X (DOMAIN cols) |->
                   Cell(frame.values, PosOf(frame.index, rows[ij[1]]),
                                      PosOf(frame.columns, cols[ij[2]]))]
    IN  [index |-> rows, columns |-> cols,
         values |-> NdArray(Len(rows), Len(cols), cell)]

\* preprocess_splits with the test matrix restricted to the common users only
preprocess_splits_rows_only(tr_df, te_df) ==
    LET tr == create_user_movie_matrix(tr_df)
        te == create_user_movie_matrix(te_df)
        common_users  == Intersection(tr.index, te.index)
        common_movies == Intersection(tr.columns, te.columns)
    IN  << Loc(tr, common_users, common_movies),
           Loc(te, common_users, te.columns) >>

preprocess_splits(tr_df, te_df) ==
    LET tr == create_user_movie_matrix(tr_df)
        te == create_user_movie_matrix(te_df)
        common_users  == Intersection(tr.index, te.index)
        common_movies == Intersection(tr.columns, te.columns)
    IN  << Loc(tr, common_users, common_movies),
           Loc(te, common_users, common_movies) >>

---------------------------------------------------------------------------
(* Exceptions.  The source defines none; every failure is the exception of  *)
(* the library call that raises it.                                         *)

NoError == "none"

\* numpy, line 67: boolean index did not match indexed array
MaskSizeError == "IndexError: boolean index did not match indexed array"

\* sklearn check_array, line 69: Found array with 0 sample(s)
ZeroSamplesError == "ValueError: Found array with 0 sample(s)"

\* sklearn check_array, line 69: Input contains NaN / infinity
NonFiniteError == "ValueError: Input contains NaN or infinity"

\* sklearn TruncatedSVD.fit_transform, line 53
ComponentsError == "ValueError: n_components must be <= n_features"

\* sklearn check_array, line 53: 0 sample(s) or fewer than 2 feature(s)
EmptyMatrixError == "ValueError: Found array with 0 sample(s) or too few feature(s)"

\* numpy / pandas, lines 87 and 94: index out of bounds
IndexOutOfBounds == "IndexError: index out of bounds"

---------------------------------------------------------------------------
(* normalize_predictions and reconstruct_matrix *)

\* ratings['rating'].min(), .max(): NaN rows skipped, NaN for no rows
RatingMin(df) ==
    LET ok == { i \in DOMAIN df : ~IsNaN(df[i].rating) }
    IN  IF ok = {} THEN NaN
        ELSE df[CHOOSE i \in ok : \A k \in ok : RLe(df[i].rating, df[k].rating)].rating

RatingMax(df) ==
    LET ok == { i \in DOMAIN df : ~IsNaN(df[i].rating) }
    IN  IF ok = {} THEN NaN
        ELSE df[CHOOSE i \in ok : \A k \in ok : RLe(df[k].rating, df[i].rating)].rating

\* line 48 without its final + min_rating
RescaleNoOffset(x, lo, hi, min_r, max_r) ==
    RMul(RDiv(RSub(x, lo), RSub(hi, lo)), RSub(max_r, min_r))

\* line 48, one cell x of the array with extremes lo, hi
Rescale(x, lo, hi, min_r, max_r) ==
    RAdd(RMul(RDiv(RSub(x, lo), RSub(hi, lo)), RSub(max_r, min_r)), min_r)

normalize_predictions(recon, df) ==
    LET min_r == RatingMin(df)
        max_r == RatingMax(df)
        lo    == ArrMin(recon)
        hi    == ArrMax(recon)
    IN  [shape |-> recon.shape,
         data  |-> [p \in DOMAIN recon.data |->
                       Rescale(recon.data[p], lo, hi, min_r, max_r)]]

\* np.diag(Sigma): the square matrix with Sigma on its diagonal
Diag(sig) ==
    NdArray(Len(sig), Len(sig),
            [ij \in (DOMAIN sig) \X (DOMAIN sig) |->
                IF ij[1] = ij[2] THEN sig[ij[1]] ELSE Zero])

\* np.dot(a, b) of two 2-D arrays of matching inner dimension
Dot(a, b) ==
    LET inner == 1..a.shape[2]
    IN  NdArray(a.shape[1], b.shape[2],
                [ij \in (1..a.shape[1]) \X (1..b.shape[2]) |->
                    RSum([c \in inner |-> RMul(Cell(a, ij[1], c), Cell(b, c, ij[2]))],
                         [c \in inner |-> c])])

\* a.T
Transpose(a) ==
    NdArray(a.shape[2], a.shape[1],
            [ij \in (1..a.shape[2]) \X (1..a.shape[1]) |-> Cell(a, ij[2], ij[1])])

\* line 60
RawProduct(u, sig, vt) == Dot(u, Dot(Diag(sig), vt))

reconstruct_matrix(u, sig, vt, df) == normalize_predictions(RawProduct(u, sig, vt), df)

IsZeroArray(a) == \A p \in DOMAIN a.data : a.data[p] = Zero

HasNaN(a) == \E p \in DOMAIN a.data : IsNaN(a.data[p])

---------------------------------------------------------------------------
(* evaluate_predictions *)

\* threshold = 3.5, line 71
THRESHOLD == Rat(7, 2)

\* binarization with the comparison turned round
BinarizeBelow(flat, threshold) ==
    [p \in DOMAIN flat |-> IF RLe(flat[p], threshold) THEN 1 ELSE 0]

\* (x >= threshold).astype(int)
Binarize(flat, threshold) == [p \in DOMAIN flat |-> IF RGe(flat[p], threshold) THEN 1 ELSE 0]

Count(S) == Cardinality(S)

\* the class labels present in either vector (sklearn unique_labels)
Labels(tb, pb) == Range(tb) \cup Range(pb)

Support(tb, c) == Count({ p \in DOMAIN tb : tb[p] = c })

Predicted(pb, c) == Count({ p \in DOMAIN pb : pb[p] = c })

TruePos(tb, pb, c) == Count({ p \in DOMAIN tb : tb[p] = c /\ pb[p] = c })

\* a per-class score num/den, 0 when den = 0 (zero_division=0)
SafeRatio(num, den) == IF den = 0 THEN Zero ELSE Rat(num, den)

\* average='weighted': the per-class scores weighted by the class's support
Weighted(tb, pb, score) ==
    LET ls == SortedSeq(Labels(tb, pb))
    IN  RDiv(RSum([k \in DOMAIN ls |-> RMul(Int2R(Support(tb, ls[k])), score[ls[k]])],
                  [k \in DOMAIN ls |-> k]),
             Int2R(Len(tb)))

precision_score(tb, pb) ==
    Weighted(tb, pb, [c \in Labels(tb, pb) |->
                         SafeRatio(TruePos(tb, pb, c), Predicted(pb, c))])

recall_score(tb, pb) ==
    Weighted(tb, pb, [c \in Labels(tb, pb) |->
                         SafeRatio(TruePos(tb, pb, c), Support(tb, c))])

f1_score(tb, pb) ==
    Weighted(tb, pb, [c \in Labels(tb, pb) |->
                         SafeRatio(2 * TruePos(tb, pb, c),
                                   Support(tb, c) + Predicted(pb, c))])

\* mean((true - pred)^2); line 69 takes its square root
mean_squared_error(tf, pf) ==
    RDiv(RSum([p \in DOMAIN tf |-> RMul(RSub(tf[p], pf[p]), RSub(tf[p], pf[p]))],
              [p \in DOMAIN tf |-> p]),
         Int2R(Len(tf)))

\* no mask: every position of the flattened matrix
AllPositions(true_m) == [p \in DOMAIN Flatten(true_m) |-> p]

\* the mask of line 65: the positions of the flattened matrix that are != 0
SelectedPositions(true_m) ==
    SelectIdx([p \in DOMAIN Flatten(true_m) |-> ~REq(Flatten(true_m)[p], Zero)],
              1, Len(Flatten(true_m)))

\* lines 72-76 at a given threshold
RecallAt(tf, pf, threshold) ==
    recall_score(Binarize(tf, threshold), Binarize(pf, threshold))

NoMetrics == [mse |-> NaN, precision |-> NaN, recall |-> NaN, f1 |-> NaN]

\* The result of the call: the exception raised, or the four metrics.  The
\* field mse is the mean squared error; the returned rmse is its square root.
evaluate_predictions(true_m, pred_m) ==
    LET sel == SelectedPositions(true_m)
        tf  == [k \in DOMAIN sel |-> Flatten(true_m)[sel[k]]]
    IN  IF Len(Flatten(pred_m)) # Len(Flatten(true_m))
        THEN [err |-> MaskSizeError, value |-> NoMetrics]
        ELSE LET pf == [k \in DOMAIN sel |-> Flatten(pred_m)[sel[k]]]
                 tb == Binarize(tf, THRESHOLD)
                 pb == Binarize(pf, THRESHOLD)
             IN  IF sel = << >>
                 THEN [err |-> ZeroSamplesError, value |-> NoMetrics]
                 ELSE IF \E k \in DOMAIN sel : ~IsFinite(tf[k]) \/ ~IsFinite(pf[k])
                 THEN [err |-> NonFiniteError, value |-> NoMetrics]
                 ELSE [err |-> NoError,
                       value |-> [mse |-> mean_squared_error(tf, pf),
                                  precision |-> precision_score(tb, pb),
                                  recall |-> recall_score(tb, pb),
                                  f1 |-> f1_score(tb, pb)]]

---------------------------------------------------------------------------
(* recommend_movies *)

RECURSIVE InsertDesc(_, _)
\* p placed after every pair of the descending list whose score is >= its own
InsertDesc(sorted, p) ==
    IF sorted = << >> THEN << p >>
    ELSE IF RLt(Head(sorted)[2], p[2]) THEN << p >> \o sorted
    ELSE << Head(sorted) >> \o InsertDesc(Tail(sorted), p)

RECURSIVE InsertDescFirst(_, _)
\* p placed before every pair of the descending list whose score is <= its own
InsertDescFirst(sorted, p) ==
    IF sorted = << >> THEN << p >>
    ELSE IF RLe(Head(sorted)[2], p[2]) THEN << p >> \o sorted
    ELSE << Head(sorted) >> \o InsertDescFirst(Tail(sorted), p)

RECURSIVE SortDescTiesReversed(_)
\* an ascending sort reversed: descending, equal scores in reverse order
SortDescTiesReversed(recs) ==
    IF recs = << >> THEN << >>
    ELSE InsertDescFirst(SortDescTiesReversed(SubSeq(recs, 1, Len(recs) - 1)),
                         recs[Len(recs)])

RECURSIVE SortDesc(_)
\* list.sort(key=score, reverse=True): descending, equal scores keep their order
SortDesc(recs) ==
    IF recs = << >> THEN << >>
    ELSE InsertDesc(SortDesc(SubSeq(recs, 1, Len(recs) - 1)), recs[Len(recs)])

\* s[:n]
Slice(s, n) ==
    IF n >= 0 THEN SubSeq(s, 1, IF n < Len(s) THEN n ELSE Len(s))
    ELSE SubSeq(s, 1, Len(s) + n)

\* line 89-90: the columns of row r of the predicted matrix whose cell == 0
Unrated(pred_m, r) ==
    SelectIdx([j \in 1..pred_m.shape[2] |-> REq(Cell(pred_m, r, j), Zero)],
              1, pred_m.shape[2])

\* recommend_movies without the guard of line 83: get_loc raises KeyError
recommend_movies_unguarded(uid, pred_m, u_mapper, m_mapper, n) ==
    IF uid \notin Range(u_mapper) THEN [err |-> "KeyError", value |-> << >>]
    ELSE LET r == PosOf(u_mapper, uid)
         IN  IF r > pred_m.shape[1] THEN [err |-> IndexOutOfBounds, value |-> << >>]
             ELSE LET cols == Unrated(pred_m, r)
                  IN  IF \E k \in DOMAIN cols : cols[k] > Len(m_mapper)
                      THEN [err |-> IndexOutOfBounds, value |-> << >>]
                      ELSE LET recs == [k \in DOMAIN cols |->
                                          << m_mapper[cols[k]], Cell(pred_m, r, cols[k]) >>]
                           IN  [err |-> NoError, value |-> Slice(SortDesc(recs), n)]

\* The result of the call: the exception raised, or the list of
\* <<movie_id, score>> pairs.
recommend_movies(uid, pred_m, u_mapper, m_mapper, n) ==
    IF uid \notin Range(u_mapper) THEN [err |-> NoError, value |-> << >>]
    ELSE LET r == PosOf(u_mapper, uid)
         IN  IF r > pred_m.shape[1] THEN [err |-> IndexOutOfBounds, value |-> << >>]
             ELSE LET cols == Unrated(pred_m, r)
                  IN  IF \E k \in DOMAIN cols : cols[k] > Len(m_mapper)
                      THEN [err |-> IndexOutOfBounds, value |-> << >>]
                      ELSE LET recs == [k \in DOMAIN cols |->
                                          << m_mapper[cols[k]], Cell(pred_m, r, cols[k]) >>]
                           IN  [err |-> NoError, value |-> Slice(SortDesc(recs), n)]

---------------------------------------------------------------------------
(* Bounds of the checked inputs *)

\* records per table given to preprocess_splits on its own
MaxRecs == 2

\* cells per matrix given to evaluate_predictions on its own
MaxCells == 2

\* columns of the predicted matrix given to recommend_movies on its own
MaxCols == 3

\* largest top_n given to recommend_movies on its own
MaxTopN == 2

---------------------------------------------------------------------------
(* Values of the variables a run does not use (yet) *)

mainVars == << ratings, train_random, test_random, train_temporal, test_temporal,
               split_type >>

splitVars == << train_df, test_df >>

matrixVars == << train_matrix, test_matrix >>

factorVars == << U, Sigma, VT >>

reconVars == << reconstructed, min_rating, max_rating >>

recVars == << user_id, user_mapper, movie_mapper, top_n, recommendations >>

NoMain ==
    /\ ratings = << >> /\ train_random = << >> /\ test_random = << >>
    /\ train_temporal = << >> /\ test_temporal = << >> /\ split_type = "none"

NoSplit == train_df = << >> /\ test_df = << >>

NoFactors == U = NoArray /\ Sigma = << >> /\ VT = NoArray

NoRecon == reconstructed = NoArray /\ min_rating = NaN /\ max_rating = NaN

NoRec ==
    /\ user_id = 0 /\ user_mapper = << >> /\ movie_mapper = << >>
    /\ top_n = 0 /\ recommendations = << >>

\* all sequences over S of length at most n
SeqUpTo(S, n) == UNION { [1..k -> S] : k \in 0..n }

\* all r x c arrays with cells in S
Arrays(r, c, S) == { [shape |-> << r, c >>, data |-> d] : d \in [1..(r * c) -> S] }

\* a frame over an array, its rows and columns labelled 1, 2, ...
FrameOf(a) ==
    [index |-> [i \in 1..a.shape[1] |-> i], columns |-> [j \in 1..a.shape[2] |-> j],
     values |-> a]

---------------------------------------------------------------------------
(* preprocess_splits on every pair of small record tables *)

AlignUsers == {1, 2}

AlignItems == {1, 2, 3}

AlignRecords == { Record(u, m, Int2R(4), 0) : u \in AlignUsers, m \in AlignItems }

InitAlign ==
    /\ pc = "preprocess_splits"
    /\ err = NoError
    /\ train_df \in SeqUpTo(AlignRecords, MaxRecs)
    /\ test_df \in SeqUpTo(AlignRecords, MaxRecs)
    /\ train_matrix = NoFrame /\ test_matrix = NoFrame
    /\ pred_matrix = NoArray /\ metrics = NoMetrics
    /\ NoMain /\ NoFactors /\ NoRecon /\ NoRec

AlignCall ==
    /\ pc = "preprocess_splits"
    /\ train_matrix' = preprocess_splits(train_df, test_df)[1]
    /\ test_matrix' = preprocess_splits(train_df, test_df)[2]
    /\ pc' = "returned"
    /\ UNCHANGED << err, mainVars, splitVars, factorVars, reconVars, pred_matrix,
                    metrics, recVars >>

NextAlign == AlignCall

SpecAlign == InitAlign /\ [][NextAlign]_vars

---------------------------------------------------------------------------
(* evaluate_predictions on every pair of small matrices *)

EvalShapes == { rc \in (1..MaxCells) \X (1..MaxCells) : rc[1] * rc[2] <= MaxCells }

EvalTrueCells == { Zero, Int2R(3), Int2R(5) }

EvalPredCells == { Int2R(3), Int2R(4), Int2R(5), NaN }

InitEval ==
    /\ pc = "evaluate_predictions"
    /\ err = NoError
    /\ \E rc \in EvalShapes : \E a \in Arrays(rc[1], rc[2], EvalTrueCells) :
          test_matrix = FrameOf(a)
    /\ \E rc \in EvalShapes : pred_matrix \in Arrays(rc[1], rc[2], EvalPredCells)
    /\ train_matrix = NoFrame /\ metrics = NoMetrics
    /\ NoMain /\ NoSplit /\ NoFactors /\ NoRecon /\ NoRec

EvalCall ==
    /\ pc = "evaluate_predictions"
    /\ LET res == evaluate_predictions(test_matrix.values, pred_matrix)
       IN  /\ err' = res.err
           /\ metrics' = res.value
           /\ pc' = IF res.err = NoError THEN "returned" ELSE "raised"
    /\ UNCHANGED << mainVars, splitVars, matrixVars, factorVars, reconVars,
                    pred_matrix, recVars >>

NextEval == EvalCall

SpecEval == InitEval /\ [][NextEval]_vars

---------------------------------------------------------------------------
(* recommend_movies on every small argument list *)

RecUsers == {1, 2}

RecUserIds == {1, 2, 3}

RecCells == { Zero, Int2R(3) }

\* the column labels of a pivot of n movies
RecMovies(n) == [j \in 1..n |-> 10 + j]

InitRec ==
    /\ pc = "recommend_movies"
    /\ err = NoError
    /\ user_id \in RecUserIds
    /\ \E S \in SUBSET RecUsers : user_mapper = SortedSeq(S)
    /\ \E r \in 0..Cardinality(RecUsers) : \E c \in 0..MaxCols :
          pred_matrix \in Arrays(r, c, RecCells)
    /\ \E n \in 0..MaxCols : movie_mapper = RecMovies(n)
    /\ top_n \in 0..MaxTopN
    /\ recommendations = << >>
    /\ train_matrix = NoFrame /\ test_matrix = NoFrame /\ metrics = NoMetrics
    /\ NoMain /\ NoSplit /\ NoFactors /\ NoRecon

RecCall ==
    /\ pc = "recommend_movies"
    /\ LET res == recommend_movies(user_id, pred_matrix, user_mapper, movie_mapper, top_n)
       IN  /\ err' = res.err
           /\ recommendations' = res.value
           /\ pc' = IF res.err = NoError THEN "returned" ELSE "raised"
    /\ UNCHANGED << mainVars, splitVars, matrixVars, factorVars, reconVars,
                    pred_matrix, metrics, user_id, user_mapper, movie_mapper, top_n >>

NextRec == RecCall

SpecRec == InitRec /\ [][NextRec]_vars

---------------------------------------------------------------------------
(* train_svd *)

\* TruncatedSVD(n_components=N_COMPONENTS).fit_transform(matrix) raises, for a
\* matrix of r rows and c columns: no rows or fewer than two columns
\* (check_array), or more components than columns.  With exactly as many
\* components as columns, releases before 1.1 raise (n_components must be
\* < n_features) and later ones do not: strict says which release runs.
SvdError(r, c, strict) ==
    IF r = 0 \/ c < 2 THEN EmptyMatrixError
    ELSE IF N_COMPONENTS > c \/ (strict /\ N_COMPONENTS = c) THEN ComponentsError
    ELSE NoError

\* The number of components the factors hold: randomized_svd slices the
\* first n_components of the min(r, c) it can compute.
SvdRank(r, c) ==
    LET m == IF r < c THEN r ELSE c
    IN  IF N_COMPONENTS < m THEN N_COMPONENTS ELSE m

\* components_: k orthogonal rows over c columns, row q supported on the
\* columns j with (j + phase) % (k + 1) = q % (k + 1)
Components(k, c, phase) ==
    NdArray(k, c, [qj \in (1..k) \X (1..c) |->
                      IF (qj[2] + phase) % (k + 1) = qj[1] % (k + 1)
                      THEN Int2R(1) ELSE Zero])

\* singular_values_: k values, descending, the last one being low
SingularValues(k, low) == [q \in 1..k |-> Int2R(low + k - q)]

\* fit_transform's return value: X projected on the components
Transformed(x, vt) == Dot(x, Transpose(vt))

---------------------------------------------------------------------------
(* main: the record table of a run *)

\* items beyond N_COMPONENTS in the larger record tables
MaxExtraItems == 1

\* largest value of the smallest singular value drawn for the factors
MaxSigma == 2

\* largest column phase drawn for the components
MaxPhase == 1

\* the number of items of the small record tables
SmallItems == 3

ItemCounts == { SmallItems } \cup { N_COMPONENTS + e : e \in 0..MaxExtraItems }

\* ratings of the first user's early records, and of the late records
EarlyRatings == { Zero, Int2R(2), Int2R(5) }

LateRatings == { Rat(1, 2), Int2R(4), Int2R(5) }

\* the rows user u gives rating r to the items lo..hi, at the times after t0
Block(u, lo, hi, r, t0) ==
    [k \in 1..(hi - lo + 1) |-> Record(u, lo + k - 1, r, t0 + k)]

RECURSIVE Background(_, _, _)
\* users 3, 4, ..., 2 + n each rating the items 1..M with 3.0
Background(n, M, t0) ==
    IF n = 0 THEN << >>
    ELSE Background(n - 1, M, t0) \o Block(2 + n, 1, M, Int2R(3), t0 + (n - 1) * M)

\* A record table of 5 M (or 5 M + 1) rows.  Users 1 and 2 rate early and
\* late; three more users rate every item in between.  With disjoint = FALSE
\* every late record is of an item its user has not rated before but the
\* other has; with disjoint = TRUE user 2 alone rates late, items that only
\* others rated early.  The file lists the late records first.
Dataset(M, disjoint, rEarly, rLate) ==
    LET early == IF disjoint
                 THEN Block(1, 1, M, rEarly, 0) \o Block(2, M + 1, M + 1, Int2R(4), M)
                 ELSE Block(1, 1, M - 1, rEarly, 0) \o Block(2, M, M, Int2R(4), M - 1)
        mid   == Background(3, M, Len(early))
        t1    == Len(early) + Len(mid)
        late  == IF disjoint
                 THEN Block(2, 1, M, rLate, t1)
                 ELSE Block(2, 1, M - 1, rLate, t1) \o Block(1, M, M, rLate, t1 + M - 1)
    IN  late \o early \o mid

---------------------------------------------------------------------------
(* main: the two splits *)

\* the rows of df at the positions of the set keep, in df's order
Rows(df, keep) ==
    LET idx == SelectIdx([i \in DOMAIN df |-> i \in keep], 1, Len(df))
    IN  [k \in DOMAIN idx |-> df[idx[k]]]

\* ceil(0.2 * n), the test size of train_test_split(test_size=0.2)
TestSize(n) == (n + 4) \div 5

\* train_test_split draws the test rows with a seeded permutation, which is
\* not computed here: the test rows are one of the floor(n / n_test)
\* consecutive folds of the table.
Folds(n) == 0..((n \div TestSize(n)) - 1)

FoldRows(n, f) == (f * TestSize(n) + 1)..((f + 1) * TestSize(n))

\* df.sort_values('timestamp')
SortByTimestamp(df) ==
    LET before(i, k) == \/ df[i].timestamp < df[k].timestamp
                        \/ df[i].timestamp = df[k].timestamp /\ i < k
        rank(i) == Cardinality({ k \in DOMAIN df : before(k, i) })
    IN  [p \in DOMAIN df |-> df[CHOOSE i \in DOMAIN df : rank(i) = p - 1]]

\* sorted['timestamp'].quantile(0.8), linear interpolation between the two
\* rows around position 0.8 (n - 1)
Quantile80(sorted) ==
    LET n    == Len(sorted)
        lo   == (4 * (n - 1)) \div 5
        frac == Rat((4 * (n - 1)) % 5, 5)
        a    == Int2R(sorted[lo + 1].timestamp)
        b    == Int2R(sorted[IF lo + 2 <= n THEN lo + 2 ELSE n].timestamp)
    IN  RAdd(a, RMul(frac, RSub(b, a)))

TemporalTrain(df) ==
    LET sorted == SortByTimestamp(df)
        cutoff == Quantile80(sorted)
    IN  Rows(sorted, { i \in DOMAIN sorted : RLe(Int2R(sorted[i].timestamp), cutoff) })

TemporalTest(df) ==
    LET sorted == SortByTimestamp(df)
        cutoff == Quantile80(sorted)
    IN  Rows(sorted, { i \in DOMAIN sorted : RLt(cutoff, Int2R(sorted[i].timestamp)) })

---------------------------------------------------------------------------
(* main *)

Init ==
    /\ pc = "main"
    /\ err = NoError
    /\ \E M \in ItemCounts : \E disjoint \in BOOLEAN :
       \E rEarly \in EarlyRatings : \E rLate \in LateRatings :
          ratings = Dataset(M, disjoint, rEarly, rLate)
    /\ train_random = << >> /\ test_random = << >>
    /\ train_temporal = << >> /\ test_temporal = << >>
    /\ split_type = "none"
    /\ train_matrix = NoFrame /\ test_matrix = NoFrame
    /\ pred_matrix = NoArray /\ metrics = NoMetrics
    /\ NoSplit /\ NoFactors /\ NoRecon /\ NoRec

\* lines 104-108
MakeSplits ==
    /\ pc = "main"
    /\ \E f \in Folds(Len(ratings)) :
          /\ test_random' = Rows(ratings, FoldRows(Len(ratings), f))
          /\ train_random' = Rows(ratings, (DOMAIN ratings) \ FoldRows(Len(ratings), f))
    /\ train_temporal' = TemporalTrain(ratings)
    /\ test_temporal' = TemporalTest(ratings)
    /\ pc' = "for"
    /\ UNCHANGED << err, ratings, split_type, splitVars, matrixVars, factorVars,
                    reconVars, pred_matrix, metrics, recVars >>

\* line 111: the next of the two splits, or the end of the loop
NextSplit ==
    /\ pc = "for"
    /\ \/ /\ split_type = "none"
          /\ split_type' = "Random"
          /\ train_df' = train_random /\ test_df' = test_random
          /\ pc' = "preprocess_splits"
       \/ /\ split_type = "Random"
          /\ split_type' = "Temporal"
          /\ train_df' = train_temporal /\ test_df' = test_temporal
          /\ pc' = "preprocess_splits"
       \/ /\ split_type = "Temporal"
          /\ UNCHANGED << split_type, train_df, test_df >>
          /\ pc' = "done"
    /\ UNCHANGED << err, ratings, train_random, test_random, train_temporal,
                    test_temporal, matrixVars, factorVars, reconVars, pred_matrix,
                    metrics, recVars >>

\* line 115
Preprocess ==
    /\ pc = "preprocess_splits"
    /\ train_matrix' = preprocess_splits(train_df, test_df)[1]
    /\ test_matrix' = preprocess_splits(train_df, test_df)[2]
    /\ pc' = "train_svd"
    /\ UNCHANGED << err, mainVars, splitVars, factorVars, reconVars, pred_matrix,
                    metrics, recVars >>

\* line 117, the library raising
TrainSvdRaise ==
    /\ pc = "train_svd"
    /\ \E strict \in BOOLEAN :
          /\ SvdError(train_matrix.values.shape[1], train_matrix.values.shape[2], strict)
                # NoError
          /\ err' = SvdError(train_matrix.values.shape[1],
                             train_matrix.values.shape[2], strict)
    /\ pc' = "raised"
    /\ UNCHANGED << mainVars, splitVars, matrixVars, factorVars, reconVars,
                    pred_matrix, metrics, recVars >>

\* line 117, the library returning.  The factors are not computed: the
\* components and the singular values are drawn from a bounded family, and U
\* is the matrix projected on the components.  The zero matrix has zero
\* singular values; any other matrix has a non-zero projection.
TrainSvd ==
    /\ pc = "train_svd"
    /\ \E strict \in BOOLEAN :
          SvdError(train_matrix.values.shape[1], train_matrix.values.shape[2], strict)
             = NoError
    /\ LET x == train_matrix.values
           k == SvdRank(x.shape[1], x.shape[2])
       IN  \E phase \in 0..MaxPhase : \E low \in 1..MaxSigma :
              /\ VT' = Components(k, x.shape[2], phase)
              /\ U' = Transformed(x, VT')
              /\ Sigma' = IF IsZeroArray(x) THEN [q \in 1..k |-> Zero]
                          ELSE SingularValues(k, low)
              /\ IsZeroArray(x) \/ ~IsZeroArray(U')
    /\ pc' = "reconstruct_matrix"
    /\ UNCHANGED << err, mainVars, splitVars, matrixVars, reconVars, pred_matrix,
                    metrics, recVars >>

\* the table main passes as reconstruct_matrix's ratings argument, line 119
RescaleTable(all_ratings, tr_df) == tr_df

\* line 119
Reconstruct ==
    /\ pc = "reconstruct_matrix"
    /\ reconstructed' = RawProduct(U, Sigma, VT)
    /\ min_rating' = RatingMin(RescaleTable(ratings, train_df))
    /\ max_rating' = RatingMax(RescaleTable(ratings, train_df))
    /\ pred_matrix' = reconstruct_matrix(U, Sigma, VT, RescaleTable(ratings, train_df))
    /\ pc' = "evaluate_predictions"
    /\ UNCHANGED << err, mainVars, splitVars, matrixVars, factorVars, metrics, recVars >>

\* line 122
Evaluate ==
    /\ pc = "evaluate_predictions"
    /\ split_type # "none"
    /\ LET res == evaluate_predictions(test_matrix.values, pred_matrix)
       IN  /\ err' = res.err
           /\ metrics' = res.value
           /\ pc' = IF res.err = NoError THEN "recommend_movies" ELSE "raised"
    /\ UNCHANGED << mainVars, splitVars, matrixVars, factorVars, reconVars,
                    pred_matrix, recVars >>

\* lines 128-132
Recommend ==
    /\ pc = "recommend_movies"
    /\ split_type # "none"
    /\ user_id' = MAIN_USER_ID
    /\ user_mapper' = train_matrix.index
    /\ movie_mapper' = train_matrix.columns
    /\ top_n' = DEFAULT_TOP_N
    /\ LET res == recommend_movies(MAIN_USER_ID, pred_matrix, train_matrix.index,
                                   train_matrix.columns, DEFAULT_TOP_N)
       IN  /\ err' = res.err
           /\ recommendations' = res.value
           /\ pc' = IF res.err = NoError THEN "for" ELSE "raised"
    /\ UNCHANGED << mainVars, splitVars, matrixVars, factorVars, reconVars,
                    pred_matrix, metrics >>

Next ==
    \/ MakeSplits
    \/ NextSplit
    \/ Preprocess
    \/ TrainSvdRaise
    \/ TrainSvd
    \/ Reconstruct
    \/ Evaluate
    \/ Recommend

Spec == Init /\ [][Next]_vars

---------------------------------------------------------------------------
(* Properties *)

UsersOf(df) == { df[i].userId : i \in DOMAIN df }

ItemsOf(df) == { df[i].movieId : i \in DOMAIN df }

NoRepeat(seq) == Cardinality(Range(seq)) = Len(seq)

\* C1: the two matrices preprocess_splits returns have the same row labels and
\* the same column labels, in the same order; the rows are exactly the users
\* of both tables and the columns exactly the items of both tables, so a user
\* or item missing from one table is in neither matrix.
C1_AlignedIndexes ==
    pc = "returned" =>
        /\ train_matrix.index = test_matrix.index
        /\ train_matrix.columns = test_matrix.columns
        /\ Range(train_matrix.index) = UsersOf(train_df) \cap UsersOf(test_df)
        /\ Range(train_matrix.columns) = ItemsOf(train_df) \cap ItemsOf(test_df)
        /\ NoRepeat(train_matrix.index) /\ NoRepeat(train_matrix.columns)
        /\ train_matrix.values.shape
              = << Len(train_matrix.index), Len(train_matrix.columns) >>
        /\ test_matrix.values.shape = train_matrix.values.shape

\* C1 witness: an aligned pair with a common user and item, a user of the train
\* table alone and an item of the test table alone.
C1_Witness ==
    /\ pc = "returned"
    /\ train_matrix.index # << >> /\ train_matrix.columns # << >>
    /\ UsersOf(train_df) \ UsersOf(test_df) # {}
    /\ ItemsOf(test_df) \ ItemsOf(train_df) # {}

\* C2: a test matrix of sentinel values only makes evaluate_predictions raise
\* and return no metrics (so no rmse of 0); when the predicted matrix has as
\* many cells as the test matrix the exception is the one for an empty
\* selection (zero samples).
C2_AllSentinelRaises ==
    (pc # "evaluate_predictions" /\ IsZeroArray(test_matrix.values)) =>
        /\ pc = "raised"
        /\ metrics = NoMetrics
        /\ (Len(Flatten(pred_matrix)) = Len(Flatten(test_matrix.values))
               => err = ZeroSamplesError)

\* C2 witness: an all-sentinel test matrix, a predicted matrix of its shape,
\* and the evaluation raised for the empty selection.
C2_Witness ==
    /\ pc = "raised"
    /\ IsZeroArray(test_matrix.values)
    /\ pred_matrix.shape = test_matrix.values.shape
    /\ ~HasNaN(pred_matrix)
    /\ err = ZeroSamplesError

\* C3: for a user identifier that is not in the user index, recommend_movies
\* returns the empty list and raises nothing, whatever the other arguments.
C3_UnknownUserEmpty ==
    (pc # "recommend_movies" /\ user_id \notin Range(user_mapper)) =>
        /\ pc = "returned"
        /\ err = NoError
        /\ recommendations = << >>

\* C3 witness: an unknown user, a predicted matrix with no row at all and
\* zero cells elsewhere in the inputs, and the call returned.
C3_Witness ==
    /\ pc = "returned"
    /\ user_id \notin Range(user_mapper)
    /\ user_mapper # << >>
    /\ pred_matrix.shape[1] = 0
    /\ top_n > 0

\* the eligible columns of the user's row: the cell is exactly 0
Eligible == { j \in 1..pred_matrix.shape[2] :
                REq(Cell(pred_matrix, PosOf(user_mapper, user_id), j), Zero) }

Score(j) == Cell(pred_matrix, PosOf(user_mapper, user_id), j)

\* the number of eligible columns ranked before column j: a higher score, or
\* the same score and an earlier column
Rank(j) == Cardinality({ i \in Eligible :
                            RLt(Score(j), Score(i)) \/ (Score(i) = Score(j) /\ i < j) })

Min(a, b) == IF a < b THEN a ELSE b

\* C4: for a user of the index, recommend_movies returns the first
\* min(top_n, number of eligible items) eligible items in descending score
\* order, equal scores in column order: never more than top_n pairs, and
\* scores non-increasing.  (With arguments of matching shapes it returns.)
C4_TopNStableDescending ==
    (pc # "recommend_movies" /\ user_id \in Range(user_mapper)) =>
        /\ (pred_matrix.shape = << Len(user_mapper), Len(movie_mapper) >>
               => pc = "returned")
        /\ pc = "returned" =>
              /\ Len(recommendations) = Min(top_n, Cardinality(Eligible))
              /\ Len(recommendations) <= top_n
              /\ \A p \in DOMAIN recommendations :
                    \E j \in Eligible :
                       /\ Rank(j) = p - 1
                       /\ recommendations[p] = << movie_mapper[j], Score(j) >>
              /\ \A p, q \in DOMAIN recommendations :
                    p < q => RGe(recommendations[p][2], recommendations[q][2])

\* C4 witness: a user of the index with three eligible items and top_n = 2:
\* the list was cut and holds two tied pairs.
C4_Witness ==
    /\ pc = "returned"
    /\ user_id \in Range(user_mapper)
    /\ Cardinality(Eligible) = 3
    /\ top_n = 2
    /\ Len(recommendations) = 2

\* C5: when every cell of the raw reconstructed matrix has the same value the
\* rescaling falls back instead of dividing by zero, so the predicted matrix
\* holds no NaN.
C5_DegenerateFallback ==
    (reconstructed # NoArray /\ ArrMin(reconstructed) = ArrMax(reconstructed)) =>
        ~HasNaN(pred_matrix)

\* C6: the rating range used to rescale is that of the whole record table of
\* the run, for both splits.
C6_RangeOfAllRatings ==
    reconstructed # NoArray =>
        /\ min_rating = RatingMin(ratings)
        /\ max_rating = RatingMax(ratings)

\* C7: with N_COMPONENTS >= min(n_users, n_items) of a non-empty aligned train
\* matrix, the factorization does not fail.
C7_RankClamped ==
    (/\ train_matrix.values.shape[1] > 0 /\ train_matrix.values.shape[2] > 0
     /\ N_COMPONENTS >= Min(train_matrix.values.shape[1], train_matrix.values.shape[2]))
        => err \notin { ComponentsError, EmptyMatrixError }

\* C8: a test matrix and a predicted matrix of different shapes make
\* evaluate_predictions raise and return no metrics, also when they have the
\* same number of cells.
C8_ShapeMismatchRaises ==
    (pc # "evaluate_predictions" /\ pred_matrix.shape # test_matrix.values.shape) =>
        /\ pc = "raised"
        /\ metrics = NoMetrics

FIVE == Int2R(5)

SelectedTrue == [k \in DOMAIN SelectedPositions(test_matrix.values) |->
                    Flatten(test_matrix.values)[SelectedPositions(test_matrix.values)[k]]]

SelectedPred == [k \in DOMAIN SelectedPositions(test_matrix.values) |->
                    Flatten(pred_matrix)[SelectedPositions(test_matrix.values)[k]]]

\* C9 as stated: the weighted recall at threshold 5.0 is at most the recall
\* the evaluator returned (threshold 3.5).
C9_RecallMonotone ==
    pc = "returned" =>
        /\ metrics.recall = RecallAt(SelectedTrue, SelectedPred, THRESHOLD)
        /\ RLe(RecallAt(SelectedTrue, SelectedPred, FIVE), metrics.recall)

PositivesAt(flat, threshold) ==
    { p \in DOMAIN flat : Binarize(flat, threshold)[p] = 1 }

\* C9 amended: raising the threshold from 3.5 to 5.0 never adds a positive:
\* the positive true labels, the positive predicted labels and so the true
\* positives at 5.0 are among those at 3.5, and the recall the evaluator
\* returns is the weighted recall at 3.5.
C9_PositivesMonotone ==
    pc = "returned" =>
        /\ metrics.recall = RecallAt(SelectedTrue, SelectedPred, THRESHOLD)
        /\ PositivesAt(SelectedTrue, FIVE) \subseteq PositivesAt(SelectedTrue, THRESHOLD)
        /\ PositivesAt(SelectedPred, FIVE) \subseteq PositivesAt(SelectedPred, THRESHOLD)
        /\ TruePos(Binarize(SelectedTrue, FIVE), Binarize(SelectedPred, FIVE), 1)
              <= TruePos(Binarize(SelectedTrue, THRESHOLD),
                         Binarize(SelectedPred, THRESHOLD), 1)

\* C9 witness: an evaluation that returned, with a true positive at 3.5 that
\* is none at 5.0.
C9_Witness ==
    /\ pc = "returned"
    /\ TruePos(Binarize(SelectedTrue, FIVE), Binarize(SelectedPred, FIVE), 1)
          < TruePos(Binarize(SelectedTrue, THRESHOLD),
                    Binarize(SelectedPred, THRESHOLD), 1)

\* the predicted matrix of the current split has been used by recommend_movies
Recommended == pc \in { "for", "done" } /\ split_type # "none"

\* C10: recommend_movies returns only items whose predicted cell is exactly 0,
\* each with score 0; so once the predicted matrix is rescaled into a rating
\* range with a minimum above 0, it returns the empty list for every user of
\* the run, users with unrated training items included.
C10_OnlyZeroCellsRecommended ==
    /\ Recommended =>
          \A k \in DOMAIN recommendations :
             /\ recommendations[k][2] = Zero
             /\ recommendations[k][1] \in Range(movie_mapper)
             /\ Cell(pred_matrix, PosOf(user_mapper, user_id),
                     PosOf(movie_mapper, recommendations[k][1])) = Zero
    /\ (reconstructed # NoArray /\ RLt(Zero, min_rating)) =>
          /\ \A u \in UsersOf(ratings) :
                recommend_movies(u, pred_matrix, train_matrix.index,
                                 train_matrix.columns, DEFAULT_TOP_N)
                   = [err |-> NoError, value |-> << >>]
          /\ Recommended => recommendations = << >>

\* C10 witness: the run recommended for user 2, who has a row with unrated
\* items in the train matrix, from a matrix rescaled into a range above 0, and
\* the list is empty.
C10_Witness ==
    /\ Recommended
    /\ RLt(Zero, min_rating)
    /\ user_id \in Range(train_matrix.index)
    /\ \E j \in DOMAIN train_matrix.columns :
          Cell(train_matrix.values, PosOf(train_matrix.index, user_id), j) = Zero
    /\ recommendations = << >>

=============================================================================
